---- MODULE Spec2Model ----
(***************************************************************************)
(* Model of src/constants.c: the static, sentinel-terminated table of      *)
(* (name, value) pairs returned by rust_get_constants, together with the   *)
(* callers that obtain the pointer and scan the table.                     *)
(*                                                                         *)
(* A uint64_t is a sequence of four 16-bit limbs, most significant first,  *)
(* so that values above 2^31 keep their full width.                        *)
(***************************************************************************)
EXTENDS Integers, Sequences, FiniteSets, TLC

VARIABLES platform, constants, stored, writers, nwrites,
          pc, ret, idx, seen, ncalls, returned

vars == <<platform, constants, stored, writers, nwrites,
          pc, ret, idx, seen, ncalls, returned>>

\* ---------------------------------------------------------------- bounds
NumThreads == 2
MaxCalls == 2
MaxWrites == 1
MaxScan == 4

Threads == 1..NumThreads

\* ------------------------------------------------------ integers and names
LimbMax == 65535
LimbSign == 32768
Limbs64 == 4

NULL == "NULL"

Zero64 == <<0, 0, 0, 0>>
One64 == <<0, 0, 0, 1>>
AllOnes64 == <<LimbMax, LimbMax, LimbMax, LimbMax>>

Platforms == {"linux", "macos"}

\* The macros as the system headers define them: the C type of the
\* expression (int on Linux, an unsigned 32-bit type on macOS) and its bits.
MacroDef(p, n) ==
    IF p = "linux"
    THEN (IF n = "SIOCGIFFLAGS"
          THEN [signed |-> TRUE, limbs |-> <<0, 35091>>]
          ELSE [signed |-> TRUE, limbs |-> <<0, 35092>>])
    ELSE (IF n = "SIOCGIFFLAGS"
          THEN [signed |-> FALSE, limbs |-> <<49184, 26897>>]
          ELSE [signed |-> FALSE, limbs |-> <<32800, 26896>>])

\* Conversion as if the value went through a signed 32-bit type first.
ToUint64SignExt(m) ==
    LET pad == Limbs64 - Len(m.limbs)
        fill == IF m.limbs[1] >= LimbSign THEN LimbMax ELSE 0
    IN [k \in 1..Limbs64 |-> IF k <= pad THEN fill ELSE m.limbs[k - pad]]

\* C conversion of an integer constant expression to uint64_t: an unsigned
\* or non-negative value is zero-extended, a negative one wraps modulo 2^64.
ToUint64(m) ==
    LET pad == Limbs64 - Len(m.limbs)
        fill == IF m.signed /\ m.limbs[1] >= LimbSign THEN LimbMax ELSE 0
    IN [k \in 1..Limbs64 |-> IF k <= pad THEN fill ELSE m.limbs[k - pad]]

\* ------------------------------------------------------------- the table
Entry(n, v) == [name |-> n, value |-> v]

Named(p, n) == Entry(n, ToUint64(MacroDef(p, n)))

\* The list without its terminating record.
InitialTableNoSentinel(p) ==
    [i \in 0..1 |-> IF i = 0 THEN Named(p, "SIOCGIFFLAGS")
                    ELSE Named(p, "SIOCSIFFLAGS")]

\* The terminating record carries a name.
InitialTableUnterminated(p) ==
    [i \in 0..2 |-> IF i = 0 THEN Named(p, "SIOCGIFFLAGS")
                    ELSE IF i = 1 THEN Named(p, "SIOCSIFFLAGS")
                    ELSE Entry("", Zero64)]

\* The two entries in the other order.
InitialTableSwapped(p) ==
    [i \in 0..2 |-> IF i = 0 THEN Named(p, "SIOCSIFFLAGS")
                    ELSE IF i = 1 THEN Named(p, "SIOCGIFFLAGS")
                    ELSE Entry(NULL, Zero64)]

\* Only the first entry filled in, the rest still zero.
InitialTablePartial(p) ==
    [i \in 0..2 |-> IF i = 0 THEN Named(p, "SIOCGIFFLAGS")
                    ELSE Entry(NULL, Zero64)]

\* static constant_t constants[] = { ... }: initialised before startup.
InitialTable(p) ==
    [i \in 0..2 |-> IF i = 0 THEN Named(p, "SIOCGIFFLAGS")
                    ELSE IF i = 1 THEN Named(p, "SIOCSIFFLAGS")
                    ELSE Entry(NULL, Zero64)]

\* ------------------------------------------------------------- pointers
NullPtr == [obj |-> "null", off |-> 0]

DecayNull(obj) == NullPtr

\* An array used as a value is a pointer to its first element.
Decay(obj) == [obj |-> obj, off |-> 0]

\* return constants;
rust_get_constants == Decay("constants")

\* A call that bumps the first value each time it runs.
constants_after_call_bump(tbl) ==
    [tbl EXCEPT ![0].value[Limbs64] = (@ + 1) % (LimbMax + 1)]

\* The array has static storage duration and the body has no statement
\* but the return: a call leaves the array as it was.
constants_after_call(tbl) == tbl

\* ------------------------------------------------------------ the callers
\* What a read outside the array, or through a null pointer, may produce.
Indeterminate == {Entry(NULL, Zero64), Entry("garbage", AllOnes64)}

\* The entries thread t may observe at p[i].  A read of an entry another
\* thread has stored to, with no synchronisation, is a data race: either
\* field may come from any content the entry has held.
Load(t, p, i) ==
    IF p.obj # "constants" \/ (p.off + i) \notin DOMAIN constants
    THEN Indeterminate
    ELSE IF writers[p.off + i] \subseteq {t}
         THEN {constants[p.off + i]}
         ELSE {Entry(a.name, b.value) :
                   a \in stored[p.off + i], b \in stored[p.off + i]}

\* The stores the field types allow through a constant_t*.
StoreChoices(old) ==
    {[old EXCEPT !.name = n] : n \in {NULL, "X"}}
        \cup {[old EXCEPT !.value = v] : v \in {Zero64, One64}}

Init ==
    /\ platform \in Platforms
    /\ constants = InitialTable(platform)
    /\ stored = [i \in DOMAIN constants |-> {constants[i]}]
    /\ writers = [i \in DOMAIN constants |-> {}]
    /\ nwrites = 0
    /\ pc = [t \in Threads |-> "idle"]
    /\ ret = [t \in Threads |-> NullPtr]
    /\ idx = [t \in Threads |-> 0]
    /\ seen = [t \in Threads |-> <<>>]
    /\ ncalls = [t \in Threads |-> 0]
    /\ returned = {}

\* p = rust_get_constants();
Call(t) ==
    /\ pc[t] = "idle"
    /\ ncalls[t] < MaxCalls
    /\ constants' = constants_after_call(constants)
    /\ ret' = [ret EXCEPT ![t] = rust_get_constants]
    /\ returned' = returned \cup
           {[addr |-> rust_get_constants, content |-> constants']}
    /\ pc' = [pc EXCEPT ![t] = "scan"]
    /\ idx' = [idx EXCEPT ![t] = 0]
    /\ seen' = [seen EXCEPT ![t] = <<>>]
    /\ ncalls' = [ncalls EXCEPT ![t] = @ + 1]
    /\ UNCHANGED <<platform, stored, writers, nwrites>>

\* One step of the scan: read p[idx], stop at a null name, else advance.
Read(t) ==
    /\ pc[t] = "scan"
    /\ idx[t] < MaxScan
    /\ \E e \in Load(t, ret[t], idx[t]) :
          /\ seen' = [seen EXCEPT ![t] = Append(@, e)]
          /\ IF e.name = NULL
             THEN /\ pc' = [pc EXCEPT ![t] = "done"]
                  /\ idx' = idx
             ELSE /\ pc' = pc
                  /\ idx' = [idx EXCEPT ![t] = @ + 1]
    /\ UNCHANGED <<platform, constants, stored, writers, nwrites,
                   ret, ncalls, returned>>

\* The caller finishes with one scan and may call again.
Restart(t) ==
    /\ pc[t] = "done"
    /\ pc' = [pc EXCEPT ![t] = "idle"]
    /\ UNCHANGED <<platform, constants, stored, writers, nwrites,
                   ret, idx, seen, ncalls, returned>>

\* A store through the returned pointer: p[i].name = n or p[i].value = v.
Write(t) ==
    /\ ret[t].obj = "constants"
    /\ nwrites < MaxWrites
    /\ \E i \in DOMAIN constants :
          \E e \in StoreChoices(constants[i]) :
             /\ constants' = [constants EXCEPT ![i] = e]
             /\ stored' = [stored EXCEPT ![i] = @ \cup {e}]
             /\ writers' = [writers EXCEPT ![i] = @ \cup {t}]
    /\ nwrites' = nwrites + 1
    /\ UNCHANGED <<platform, pc, ret, idx, seen, ncalls, returned>>

Next ==
    \E t \in Threads : Call(t) \/ Read(t) \/ Restart(t)

NextW ==
    \E t \in Threads : Call(t) \/ Read(t) \/ Restart(t) \/ Write(t)

\* Callers that only read, as the ownership rule asks of them.
Spec == Init /\ [][Next]_vars

\* Every running thread keeps taking steps of its scan.
FairSpec == Init /\ [][Next]_vars /\ \A t \in Threads : WF_vars(Read(t))

\* Callers that also use the write access the pointer type gives them.
SpecW == Init /\ [][NextW]_vars

\* ------------------------------------------------ expected table content
\* The values the platform headers give the two macros, as 64-bit numbers:
\* 0x8913 and 0x8914 on Linux, 0xc0206911 and 0x80206910 on macOS.
Golden(p, n) ==
    IF p = "linux"
    THEN (IF n = "SIOCGIFFLAGS" THEN <<0, 0, 0, 35091>>
          ELSE <<0, 0, 0, 35092>>)
    ELSE (IF n = "SIOCGIFFLAGS" THEN <<0, 0, 49184, 26897>>
          ELSE <<0, 0, 32800, 26896>>)

Sentinel == [name |-> NULL, value |-> Zero64]

GoldenTable(p) ==
    <<[name |-> "SIOCGIFFLAGS", value |-> Golden(p, "SIOCGIFFLAGS")],
      [name |-> "SIOCSIFFLAGS", value |-> Golden(p, "SIOCSIFFLAGS")],
      Sentinel>>

NoName(n) == n = NULL \/ n = ""

LastIndex(c) == CHOOSE m \in DOMAIN c : \A j \in DOMAIN c : j <= m

Names(s) == [k \in 1..Len(s) |-> s[k].name]

\* C1: every call returns a non-empty sequence whose last entry is exactly
\* the sentinel (null name, value 0), and no entry before the last one has a
\* null or empty name.
C1_SentinelTerminated ==
    \A r \in returned :
        /\ DOMAIN r.content # {}
        /\ r.content[LastIndex(r.content)] = Sentinel
        /\ \A i \in DOMAIN r.content :
              i < LastIndex(r.content) => ~NoName(r.content[i].name)

C1_Witness ==
    \E t \in Threads :
        /\ pc[t] = "scan" /\ seen[t] = <<>>
        /\ \E r \in returned : r.content[LastIndex(r.content)] = Sentinel

\* C2: after any sequence of calls and of operations a caller can perform
\* through the returned pointer, the name and value of every entry equal
\* their compile-time content.
C2_EntriesImmutable ==
    /\ DOMAIN constants = 0..2
    /\ \A i \in DOMAIN constants : constants[i] = GoldenTable(platform)[i + 1]

\* C3: any two calls in the same process, whatever happens between them,
\* return sequences with the same entry count, names and values in the same
\* order.
C3_CallsIdempotent ==
    \A r1 \in returned : \A r2 \in returned : r1.content = r2.content

\* C4: threads that call and read concurrently, with no synchronisation,
\* all observe identical content: whatever two threads have read at the same
\* position is the same entry.
C4_ReadersAgree ==
    \A t \in Threads : \A u \in Threads :
        \A k \in 1..Len(seen[t]) :
            k <= Len(seen[u]) => seen[t][k] = seen[u][k]

C4_Witness ==
    \E t \in Threads : \E u \in Threads :
        /\ t # u
        /\ pc[t] = "scan" /\ pc[u] = "scan"
        /\ Len(seen[t]) >= 1 /\ Len(seen[u]) >= 2

\* C5: a scan from the first entry that stops at the first null name yields
\* exactly 2 real entries, "SIOCGIFFLAGS" then "SIOCSIFFLAGS", immediately
\* followed by the sentinel.
C5_ScanYieldsTwoInOrder ==
    \A t \in Threads :
        pc[t] = "done" =>
            /\ idx[t] = 2
            /\ Names(seen[t]) = <<"SIOCGIFFLAGS", "SIOCSIFFLAGS", NULL>>
            /\ seen[t][3] = Sentinel

C5_Witness ==
    \E t \in Threads : pc[t] = "done" /\ ncalls[t] = 1 /\ Len(seen[t]) = 3

\* C6: the value of each named entry is the platform's value of the macro of
\* that name, with no truncation and no sign extension, and is not zero;
\* the value 0 appears only in the sentinel.
C6_ValuesArePlatformValues ==
    /\ \A i \in DOMAIN constants :
          /\ constants[i].name # NULL =>
                /\ constants[i].value = Golden(platform, constants[i].name)
                /\ constants[i].value # Zero64
          /\ constants[i].value = Zero64 => constants[i] = Sentinel
    /\ \A t \in Threads : \A k \in 1..Len(seen[t]) :
          /\ seen[t][k].name # NULL =>
                /\ seen[t][k].value = Golden(platform, seen[t][k].name)
                /\ seen[t][k].value # Zero64
          /\ seen[t][k].value = Zero64 => seen[t][k] = Sentinel

C6_Witness ==
    /\ platform = "macos"
    /\ \E t \in Threads :
          /\ Len(seen[t]) >= 2
          /\ seen[t][1].value = <<0, 0, 49184, 26897>>
          /\ seen[t][2].value = <<0, 0, 32800, 26896>>

\* C7: a call cannot fail: every call returns a non-null pointer to the
\* first entry of the table.
C7_CallNeverFails ==
    /\ \A t \in Threads :
          ncalls[t] > 0 => ret[t] # NullPtr /\ ret[t] = [obj |-> "constants", off |-> 0]
    /\ \A r \in returned : r.addr # NullPtr

C7_Witness ==
    \E t \in Threads : ncalls[t] = 2 /\ pc[t] = "scan" /\ ret[t].obj = "constants"

\* C8: a call has no side effect: it leaves the table and the state of every
\* other thread unchanged, and every call returns the same address.
C8_CallHasNoSideEffect ==
    [][\A t \in Threads :
          ncalls'[t] = ncalls[t] + 1 =>
              /\ constants' = constants
              /\ stored' = stored /\ writers' = writers
              /\ nwrites' = nwrites /\ platform' = platform
              /\ \A u \in Threads \ {t} :
                    /\ pc'[u] = pc[u] /\ ret'[u] = ret[u]
                    /\ idx'[u] = idx[u] /\ seen'[u] = seen[u]
                    /\ ncalls'[u] = ncalls[u]
              /\ \A r \in returned' :
                    r.addr = ret'[t] /\ r.content = constants]_vars

C8_Witness ==
    /\ Cardinality(returned) = 1
    /\ \A t \in Threads : ncalls[t] >= 2

\* C9: a caller that scans one entry at a time from index 0 until it sees a
\* null name always terminates: it reaches the sentinel at index 2 and never
\* reads past the end of the 3-element array.
C9_ScanTerminates ==
    /\ [](\A t \in Threads : idx[t] <= 2 /\ Len(seen[t]) <= 3)
    /\ \A t \in Threads :
          (pc[t] = "scan") ~> (pc[t] = "done" /\ idx[t] = 2)

C9_Witness ==
    \A t \in Threads : pc[t] = "done" /\ idx[t] = 2 /\ Len(seen[t]) = 3

\* C10: no call, the first call and concurrent first calls included, can
\* observe an uninitialised or partly initialised table: what every call
\* returns and what every reader sees is the fully initialised content.
C10_AlwaysInitialized ==
    /\ \A r \in returned :
          /\ DOMAIN r.content = 0..2
          /\ \A i \in 0..2 : r.content[i] = GoldenTable(platform)[i + 1]
    /\ \A t \in Threads : \A k \in 1..Len(seen[t]) :
          k <= 3 /\ seen[t][k] = GoldenTable(platform)[k]

C10_Witness ==
    \A t \in Threads :
        ncalls[t] = 1 /\ pc[t] = "scan" /\ idx[t] = 0 /\ seen[t] = <<>>

====
